---- MODULE Spec2Model ----
(***************************************************************************)
(* A model of texturegl's main.c: the linear setup sequence of main, the   *)
(* render loop, the key callback and the shutdown, together with the part  *)
(* of the GLFW / GLEW / OpenGL / libpng / cglm state that main drives.     *)
(*                                                                         *)
(* Library calls are modelled by their documented effect.  Where main      *)
(* passes a library an argument outside its contract the outcome is a      *)
(* nondeterministic choice between the outcomes a build produces:          *)
(*   - a GLFW call on a NULL window: GLFW asserts (debug build) and        *)
(*     otherwise dereferences the handle unless the library is not         *)
(*     initialised, in which case it returns at once;                      *)
(*   - a call through a GLEW entry point that was never loaded is a call   *)
(*     through a null function pointer: the process is killed.             *)
(* Floats are exact rationals extended with +Inf, -Inf and NaN (rounding   *)
(* is not modelled; the division by zero and its propagation are).         *)
(***************************************************************************)
EXTENDS Integers, Sequences, FiniteSets, TLC

(***************************************************************************)
(* Bounds of the model and constants of the program.                       *)
(***************************************************************************)
\* the longest batch of input events one glfwPollEvents call delivers
MaxEvents == 2

GLFW_KEY_ESCAPE == 256
GLFW_KEY_A == 65
GLFW_RELEASE == 0
GLFW_PRESS == 1
GLFW_REPEAT == 2
\* sizeof(float), the unit of the strides and offsets main passes
SizeofFloat == 4
\* glDrawArrays(GL_TRIANGLES, 0, 3)
DrawCount == 3
\* the value of main's only return statement
EXIT_STATUS == 0

(***************************************************************************)
(* Floats: [n, d] with d > 0 is the rational n/d in lowest terms;          *)
(* d = 0 is +Inf (n = 1), -Inf (n = -1) or NaN (n = 0).                    *)
(***************************************************************************)
Abs(x) == IF x < 0 THEN -x ELSE x

Sign(x) == IF x < 0 THEN -1 ELSE IF x > 0 THEN 1 ELSE 0

RECURSIVE Gcd(_, _)
Gcd(a, b) == IF b = 0 THEN a ELSE Gcd(b, a % b)

Norm(n, d) ==
    IF d = 0 THEN [n |-> Sign(n), d |-> 0]
    ELSE LET s == IF d < 0 THEN -1 ELSE 1
             g == Gcd(Abs(n), Abs(d))
         IN  [n |-> (s * n) \div g, d |-> (s * d) \div g]

F(n, d) == Norm(n, d)

FInt(i) == [n |-> i, d |-> 1]

IsFinite(x) == x.d > 0

FNeg(x) == [n |-> -x.n, d |-> x.d]

FMul(x, y) == Norm(x.n * y.n, x.d * y.d)

FAdd(x, y) ==
    IF x.d = 0 /\ y.d = 0
    THEN (IF x.n = y.n THEN x ELSE [n |-> 0, d |-> 0])
    ELSE Norm(x.n * y.d + y.n * x.d, x.d * y.d)

FSub(x, y) == FAdd(x, FNeg(y))

\* x / y: a finite value over zero is an infinity, 0/0 and Inf/Inf are NaN
FDiv(x, y) ==
    LET s == IF y.n < 0 THEN -1 ELSE 1
    IN  Norm(s * x.n * y.d, s * x.d * y.n)

\* x >= 1.0f (false for NaN)
FGeqOne(x) == IF x.d = 0 THEN x.n > 0 ELSE x.n >= x.d

(***************************************************************************)
(* cglm: mat4 is column-major, M[c][r] is column c, row r (1-based here).  *)
(***************************************************************************)
Idx == 1..4

GLM_MAT4_IDENTITY_INIT ==
    [c \in Idx |-> [r \in Idx |-> IF c = r THEN FInt(1) ELSE FInt(0)]]

GLM_MAT4_ZERO == [c \in Idx |-> [r \in Idx |-> FInt(0)]]

\* glm_mat4_mul(m1, m2, dest): dest = m1 * m2
glm_mat4_mul(m1, m2) ==
    [c \in Idx |-> [r \in Idx |->
        FAdd(FAdd(FMul(m1[1][r], m2[c][1]), FMul(m1[2][r], m2[c][2])),
             FAdd(FMul(m1[3][r], m2[c][3]), FMul(m1[4][r], m2[c][4])))]]

\* glm_translate(m, v): m[3] = m[0]*v[0] + m[1]*v[1] + m[2]*v[2] + m[3]
glm_translate(m, v) ==
    [m EXCEPT ![4] = [r \in Idx |->
        FAdd(FAdd(FMul(m[1][r], v[1]), FMul(m[2][r], v[2])),
             FAdd(FMul(m[3][r], v[3]), m[4][r]))]]

\* glm_ortho(left, right, bottom, top, nearZ, farZ, dest)
glm_ortho(left, right, bottom, top, nearZ, farZ) ==
    LET rl == FDiv(FInt(1), FSub(right, left))
        tb == FDiv(FInt(1), FSub(top, bottom))
        fn == FDiv(FInt(-1), FSub(farZ, nearZ))
    IN  [GLM_MAT4_ZERO EXCEPT
            ![1][1] = FMul(FInt(2), rl),
            ![2][2] = FMul(FInt(2), tb),
            ![3][3] = FMul(FInt(2), fn),
            ![4][1] = FMul(FNeg(FAdd(right, left)), rl),
            ![4][2] = FMul(FNeg(FAdd(top, bottom)), tb),
            ![4][3] = FMul(FAdd(farZ, nearZ), fn),
            ![4][4] = FInt(1)]

\* glm_ortho_default(aspect, dest)
glm_ortho_default(aspect) ==
    IF FGeqOne(aspect)
    THEN glm_ortho(FNeg(aspect), aspect, FInt(-1), FInt(1), FInt(-100), FInt(100))
    ELSE LET inv == FDiv(FInt(1), aspect)
         IN  glm_ortho(FInt(-1), FInt(1), FNeg(inv), inv, FInt(-100), FInt(100))

(***************************************************************************)
(* The program's data (main.c:13-31), flattened to the float arrays that   *)
(* glBufferData copies.                                                    *)
(***************************************************************************)
vertices ==
    << F(-6, 10), F(-4, 10), FInt(1), FInt(0), FInt(0),
       F(6, 10),  F(-4, 10), FInt(0), FInt(1), FInt(0),
       FInt(0),   F(6, 10),  FInt(0), FInt(0), FInt(1) >>

texCoords ==
    << FInt(0),  FInt(0),
       FInt(1),  FInt(0),
       F(5, 10), FInt(1) >>

\* sizeof(vertices), sizeof(vertices[0]), sizeof(texCoords) in bytes
SizeofVertices == Len(vertices) * SizeofFloat

SizeofVertex == (Len(vertices) \div DrawCount) * SizeofFloat

SizeofTexCoords == Len(texCoords) * SizeofFloat

(***************************************************************************)
(* The environment: what the libraries may answer.                         *)
(***************************************************************************)
\* glfwCreateWindow(640, 480, ...)
WindowSize == <<640, 480>>

\* framebuffer sizes glfwGetFramebufferSize reports for the 640x480 window:
\* the window itself, a portrait framebuffer, and the 0x0 of a minimised one
FbSizes == { WindowSize, <<480, 640>>, <<0, 0>> }

\* values of cos(glfwGetTime())
CosValues == { FInt(1), FInt(0), F(-1, 2) }

Keys == { GLFW_KEY_ESCAPE, GLFW_KEY_A }

KeyActions == { GLFW_RELEASE, GLFW_PRESS, GLFW_REPEAT }

\* one input event: a key event for key_callback, or the OS close request
Events ==
    [type : {"key"}, key : Keys, action : KeyActions]
    \cup { [type |-> "close", key |-> 0, action |-> 0] }

\* no event delivered yet in this call of glfwPollEvents
NoEvent == [type |-> "none", key |-> 0, action |-> 0]

NULL == "NULL"

VARIABLES
    pc,         \* the statement of main that runs next
    glfw,       \* GLFW: library, window, callback, context, close flag
    gl,         \* the OpenGL context's state, and GLEW's entry points
    locals,     \* main's handles and locations (VAO, VBO, program, ...)
    frame,      \* the loop body's locals (width, height, cos(t), m, p, mvp)
    failed,     \* the setup steps that have failed
    stderrLog,  \* the messages written to standard error
    setupLog,   \* the setup steps executed, in order
    iterLog,    \* the steps of the current loop iteration, in order
    pending,    \* how many events glfwPollEvents still has to deliver
    event,      \* the event glfwPollEvents delivered last
    exitStatus  \* << >>, and <<status>> once main has returned

vars == << pc, glfw, gl, locals, frame, failed, stderrLog, setupLog, iterLog,
           pending, event, exitStatus >>

NoAttrib == [enabled |-> FALSE, size |-> 0, stride |-> 0, offset |-> 0, buffer |-> 0]

\* the buffer names glGenBuffers hands out: VBO first, vertex_buffer second
BufferNames == 1..2

\* the generic vertex attributes the program's three inputs can be given
AttribLocations == 0..2

\* Locals not yet assigned hold 0 (a zero matrix); main reads none of them
\* before the statement that assigns it.
Init ==
    /\ pc = "glfwInit"
    /\ glfw = [ initialised |-> FALSE, window |-> NULL, keyCallback |-> NULL,
                contextCurrent |-> FALSE, shouldClose |-> FALSE,
                destroyed |-> 0, terminated |-> 0 ]
    /\ gl = [ loaded |-> FALSE,           \* GLEW's entry points are set
              buffers |-> [b \in BufferNames |-> << >>],  \* data stores
              arrayBuffer |-> 0,          \* GL_ARRAY_BUFFER binding
              vertexArray |-> 0,          \* vertex array binding
              attribs |-> [l \in AttribLocations |-> NoAttrib],
              compiled |-> {},            \* the shaders that compiled
              linked |-> FALSE,           \* link status of the program
              active |-> {},              \* its active attributes
              currentProgram |-> 0,
              uniformMVP |-> GLM_MAT4_ZERO,
              texture2D |-> 0,            \* GL_TEXTURE_2D binding
              texImage |-> "none", texParams |-> "default", mipmaps |-> FALSE,
              viewport |-> <<0, 0>>,
              drawn |-> 0 ]               \* vertex count of the last draw
    /\ locals = [ VAO |-> 0, VBO |-> 0, vertex_buffer |-> 0,
                  vertex_shader |-> 0, fragment_shader |-> 0,
                  program |-> 0, texture |-> 0,
                  mvp_location |-> 0, vpos_location |-> 0,
                  vcol_location |-> 0, texcoord_location |-> 0 ]
    /\ frame = [ width |-> 0, height |-> 0, cos_t |-> FInt(0),
                 m |-> GLM_MAT4_ZERO, p |-> GLM_MAT4_ZERO, mvp |-> GLM_MAT4_ZERO ]
    /\ failed = {}
    /\ stderrLog = {}
    /\ setupLog = << >>
    /\ iterLog = << >>
    /\ pending = 0
    /\ event = NoEvent
    /\ exitStatus = << >>

\* a failure path that forgets its message
Report_dropped(log, msg) == log

\* fprintf(stderr, ...) and perror(...)
Report(log, msg) == log \cup {msg}

\* a step of setup: it runs at pc = step, is logged, and hands over to next
Step(step, next) ==
    /\ pc = step
    /\ pc' = next
    /\ setupLog' = Append(setupLog, step)

\* the process is killed (SIGSEGV, or abort() from a library assertion)
Crash(step) ==
    /\ pc = step
    /\ pc' = "crashed"
    /\ setupLog' = Append(setupLog, step)
    /\ UNCHANGED << glfw, gl, locals, frame, failed, stderrLog, iterLog,
                    pending, event, exitStatus >>

(***************************************************************************)
(* OpenGL calls main makes more than once.                                 *)
(***************************************************************************)
\* glBufferData(GL_ARRAY_BUFFER, size, data, GL_STATIC_DRAW): replaces the
\* store of the buffer bound to GL_ARRAY_BUFFER by size bytes of data
glBufferData(g, size, data) ==
    IF g.arrayBuffer = 0 THEN g
    ELSE [g EXCEPT !.buffers[g.arrayBuffer] =
                        SubSeq(data, 1, size \div SizeofFloat)]

\* glEnableVertexAttribArray(index): GL_INVALID_VALUE, and no effect, for an
\* index that is no attribute (the -1 of a failed location query)
glEnableVertexAttribArray(g, index) ==
    IF index \in AttribLocations
    THEN [g EXCEPT !.attribs[index].enabled = TRUE]
    ELSE g

\* glVertexAttribPointer(index, size, GL_FLOAT, GL_FALSE, stride, pointer):
\* the attribute sources the buffer bound to GL_ARRAY_BUFFER at the call
glVertexAttribPointer(g, index, size, stride, pointer) ==
    IF index \in AttribLocations
    THEN [g EXCEPT !.attribs[index] =
              [enabled |-> g.attribs[index].enabled, size |-> size,
               stride |-> stride, offset |-> pointer, buffer |-> g.arrayBuffer]]
    ELSE g

\* glGetAttribLocation(program, name): -1 unless the program is linked and
\* the attribute active; active attributes are numbered in declaration order
DeclaredAttribs == << "vCol", "vPos", "aTexCoord" >>

glGetAttribLocation(g, name) ==
    IF g.linked /\ name \in g.active
    THEN Cardinality({ i \in 1..Len(DeclaredAttribs) :
                         /\ DeclaredAttribs[i] \in g.active
                         /\ \E j \in 1..Len(DeclaredAttribs) :
                               DeclaredAttribs[j] = name /\ i < j })
    ELSE -1

\* glGetUniformLocation(program, "MVP")
glGetUniformLocation(g) == IF g.linked THEN 0 ELSE -1

\* GLFW's report of an error through error_callback (main.c:36-39)
error_callback(log) == Report(log, "Error: %s")

(***************************************************************************)
(* Setup, main.c:117-283, one action per statement group.                  *)
(***************************************************************************)
\* 117-123: glfwSetErrorCallback, glfwInit
GlfwInit ==
    \E ok \in BOOLEAN :
        /\ Step("glfwInit", "glfwCreateWindow")
        /\ glfw' = [glfw EXCEPT !.initialised = ok]
        /\ failed' = IF ok THEN failed ELSE failed \cup {"glfwInit"}
        /\ stderrLog' = IF ok THEN stderrLog
                        ELSE Report(error_callback(stderrLog),
                                    "Failed to initialize glfw.")
        /\ UNCHANGED << gl, locals, frame, iterLog, pending, event, exitStatus >>

\* 129-140: the window hints, glfwCreateWindow(640, 480, ...)
GlfwCreateWindow ==
    \E ok \in BOOLEAN :
        /\ ok => glfw.initialised
        /\ Step("glfwCreateWindow", "glfwSetKeyCallback")
        /\ glfw' = [glfw EXCEPT !.window = IF ok THEN "window" ELSE NULL]
        /\ failed' = IF ok THEN failed ELSE failed \cup {"window"}
        /\ stderrLog' = IF ok THEN stderrLog
                        ELSE Report(error_callback(stderrLog),
                                    "Failed to create window.")
        /\ UNCHANGED << gl, locals, frame, iterLog, pending, event, exitStatus >>

\* 142: glfwSetKeyCallback(window, key_callback)
GlfwSetKeyCallback ==
    \/ /\ glfw.window # NULL
       /\ Step("glfwSetKeyCallback", "glfwMakeContextCurrent")
       /\ glfw' = [glfw EXCEPT !.keyCallback = "key_callback"]
       /\ UNCHANGED << gl, locals, frame, failed, stderrLog, iterLog, pending,
                       event, exitStatus >>
    \/ /\ glfw.window = NULL
       /\ Crash("glfwSetKeyCallback")
    \/ /\ glfw.window = NULL
       /\ ~glfw.initialised
       /\ Step("glfwSetKeyCallback", "glfwMakeContextCurrent")
       /\ stderrLog' = error_callback(stderrLog)
       /\ UNCHANGED << glfw, gl, locals, frame, failed, iterLog, pending,
                       event, exitStatus >>

\* 147: glfwMakeContextCurrent(window); a context made current for the
\* first time has the window's size as its viewport
GlfwMakeContextCurrent ==
    /\ Step("glfwMakeContextCurrent", "glewInit")
    /\ IF glfw.window # NULL
       THEN /\ glfw' = [glfw EXCEPT !.contextCurrent = TRUE]
            /\ gl' = [gl EXCEPT !.viewport = WindowSize]
            /\ UNCHANGED stderrLog
       ELSE /\ stderrLog' = error_callback(stderrLog)
            /\ UNCHANGED << glfw, gl >>
    /\ UNCHANGED << locals, frame, failed, iterLog, pending, event, exitStatus >>

\* 152-156: glewInit.  Without a current context it fails (or dies in
\* glGetString) and loads nothing; with one it may report an error after
\* the entry points are loaded (GLEW_ERROR_NO_GLX_DISPLAY) or before.
GlewInit ==
    \/ \E ok \in BOOLEAN, loaded \in BOOLEAN :
        /\ ok => loaded
        /\ loaded => glfw.contextCurrent
        /\ Step("glewInit", "glGenVertexArrays")
        /\ gl' = [gl EXCEPT !.loaded = loaded]
        /\ failed' = IF ok THEN failed ELSE failed \cup {"glew"}
        /\ stderrLog' = IF ok THEN stderrLog ELSE Report(stderrLog, "Error: glew")
        /\ UNCHANGED << glfw, locals, frame, iterLog, pending, event, exitStatus >>
    \/ /\ ~glfw.contextCurrent
       /\ Crash("glewInit")

\* 158-162: glGenVertexArrays(1, &VAO), glGenBuffers(1, &VBO)
GenVertexArrays ==
    \/ /\ gl.loaded
       /\ Step("glGenVertexArrays", "vertex_shader")
       /\ locals' = [locals EXCEPT !.VAO = 1, !.VBO = 1]
       /\ UNCHANGED << glfw, gl, frame, failed, stderrLog, iterLog, pending,
                       event, exitStatus >>
    \/ /\ ~gl.loaded
       /\ Crash("glGenVertexArrays")

\* 204-213: the vertex shader
CompileVertexShader ==
    \E ok \in BOOLEAN :
        /\ Step("vertex_shader", "fragment_shader")
        /\ locals' = [locals EXCEPT !.vertex_shader = 1]
        /\ gl' = [gl EXCEPT !.compiled = IF ok THEN @ \cup {1} ELSE @]
        /\ failed' = IF ok THEN failed ELSE failed \cup {"vertex_shader"}
        /\ stderrLog' = IF ok THEN stderrLog
                        ELSE Report(stderrLog, "vertex shader infoLog")
        /\ UNCHANGED << glfw, frame, iterLog, pending, event, exitStatus >>

\* 218-227: the fragment shader
CompileFragmentShader ==
    \E ok \in BOOLEAN :
        /\ Step("fragment_shader", "program")
        /\ locals' = [locals EXCEPT !.fragment_shader = 2]
        /\ gl' = [gl EXCEPT !.compiled = IF ok THEN @ \cup {2} ELSE @]
        /\ failed' = IF ok THEN failed ELSE failed \cup {"fragment_shader"}
        /\ stderrLog' = IF ok THEN stderrLog
                        ELSE Report(stderrLog, "fragment shader infoLog")
        /\ UNCHANGED << glfw, frame, iterLog, pending, event, exitStatus >>

\* 232-241: the program.  It links only if both shaders compiled; the
\* linker may drop vCol, which feeds only the varying the fragment shader
\* never reads.
LinkProgram ==
    \E ok \in BOOLEAN, keepVCol \in BOOLEAN :
        /\ ok => gl.compiled = {locals.vertex_shader, locals.fragment_shader}
        /\ ~ok => keepVCol
        /\ Step("program", "locations")
        /\ locals' = [locals EXCEPT !.program = 3]
        /\ gl' = [gl EXCEPT !.linked = ok,
                            !.active = IF ~ok THEN {}
                                       ELSE IF keepVCol
                                            THEN {"vCol", "vPos", "aTexCoord"}
                                            ELSE {"vPos", "aTexCoord"}]
        /\ failed' = IF ok THEN failed ELSE failed \cup {"link"}
        /\ stderrLog' = IF ok THEN stderrLog
                        ELSE Report(stderrLog, "program infoLog")
        /\ UNCHANGED << glfw, frame, iterLog, pending, event, exitStatus >>

\* 246-249: the location queries
GetLocations ==
    /\ Step("locations", "glBindVertexArray")
    /\ locals' = [locals EXCEPT
                    !.mvp_location = glGetUniformLocation(gl),
                    !.vpos_location = glGetAttribLocation(gl, "vPos"),
                    !.vcol_location = glGetAttribLocation(gl, "vCol"),
                    !.texcoord_location = glGetAttribLocation(gl, "aTexCoord")]
    /\ UNCHANGED << glfw, gl, frame, failed, stderrLog, iterLog, pending,
                    event, exitStatus >>

\* 251: glBindVertexArray(VAO)
BindVertexArray ==
    /\ Step("glBindVertexArray", "vertex_buffer")
    /\ gl' = [gl EXCEPT !.vertexArray = locals.VAO]
    /\ UNCHANGED << glfw, locals, frame, failed, stderrLog, iterLog, pending,
                    event, exitStatus >>

\* 256-258: glGenBuffers(1, &vertex_buffer), glBindBuffer, glBufferData
UploadVertices ==
    /\ Step("vertex_buffer", "vertex_layout")
    /\ locals' = [locals EXCEPT !.vertex_buffer = 2]
    /\ gl' = glBufferData([gl EXCEPT !.arrayBuffer = 2],
                          SizeofVertices, vertices)
    /\ UNCHANGED << glfw, frame, failed, stderrLog, iterLog, pending,
                    event, exitStatus >>

\* a setup that goes from the vertex layout straight to the texture
\* coordinates, without the texture
VertexLayout_thenBuffers ==
    /\ Step("vertex_layout", "glBindBuffer")
    /\ gl' = glVertexAttribPointer(
                glEnableVertexAttribArray(
                    glVertexAttribPointer(
                        glEnableVertexAttribArray(gl, locals.vpos_location),
                        locals.vpos_location, 2, SizeofVertex, 0),
                    locals.vcol_location),
                locals.vcol_location, 3, SizeofVertex, SizeofFloat * 2)
    /\ UNCHANGED << glfw, locals, frame, failed, stderrLog, iterLog, pending,
                    event, exitStatus >>

\* 263-268: the layout of vPos and vCol
VertexLayout ==
    /\ Step("vertex_layout", "get_texture")
    /\ gl' = glVertexAttribPointer(
                glEnableVertexAttribArray(
                    glVertexAttribPointer(
                        glEnableVertexAttribArray(gl, locals.vpos_location),
                        locals.vpos_location, 2, SizeofVertex, 0),
                    locals.vcol_location),
                locals.vcol_location, 3, SizeofVertex, SizeofFloat * 2)
    /\ UNCHANGED << glfw, locals, frame, failed, stderrLog, iterLog, pending,
                    event, exitStatus >>

\* 273 and 56-113: texture = get_texture("rainbow.png").  libpng's answers
\* are the environment's: the file may not open or decode, malloc may
\* return NULL (also for the 0 bytes asked after a failed open), and
\* png_image_finish_read fails whenever one of the two did.
GetTexture ==
    \E beginOk \in BOOLEAN, mallocOk \in BOOLEAN, finishOk \in BOOLEAN :
        /\ finishOk => beginOk /\ mallocOk
        /\ Step("get_texture", "glBindTexture")
        /\ locals' = [locals EXCEPT !.texture = 1]
        /\ gl' = [gl EXCEPT
                    !.texture2D = 1,
                    !.texParams = "repeat, nearest",
                    !.texImage = IF finishOk THEN "decoded"
                                 ELSE IF beginOk THEN "undefined" ELSE "empty",
                    !.mipmaps = TRUE]
        /\ failed' = failed
                \cup (IF beginOk THEN {} ELSE {"png_begin_read"})
                \cup (IF mallocOk THEN {} ELSE {"malloc"})
                \cup (IF finishOk THEN {} ELSE {"png_finish_read"})
        /\ stderrLog' =
             LET l1 == IF beginOk THEN stderrLog
                       ELSE Report(stderrLog, "Could not read file")
                 l2 == IF mallocOk THEN l1
                       ELSE Report(l1, "Could not allocate memory for an image")
             IN  IF finishOk THEN l2 ELSE Report(l2, "libpng error")
        /\ UNCHANGED << glfw, frame, iterLog, pending, event, exitStatus >>

\* 274: glBindTexture(GL_TEXTURE_2D, texture)
BindTexture ==
    /\ Step("glBindTexture", "glBindBuffer")
    /\ gl' = [gl EXCEPT !.texture2D = locals.texture]
    /\ UNCHANGED << glfw, locals, frame, failed, stderrLog, iterLog, pending,
                    event, exitStatus >>

\* 276: glBindBuffer(GL_ARRAY_BUFFER, VBO)
BindVBO ==
    /\ Step("glBindBuffer", "texCoords")
    /\ gl' = [gl EXCEPT !.arrayBuffer = locals.VBO]
    /\ UNCHANGED << glfw, locals, frame, failed, stderrLog, iterLog, pending,
                    event, exitStatus >>

\* 281: glBufferData(GL_ARRAY_BUFFER, sizeof(texCoords), texCoords, ...)
UploadTexCoords ==
    /\ Step("texCoords", "texcoord_layout")
    /\ gl' = glBufferData(gl, SizeofTexCoords, texCoords)
    /\ UNCHANGED << glfw, locals, frame, failed, stderrLog, iterLog, pending,
                    event, exitStatus >>

\* 282-283: the layout of aTexCoord
TexCoordLayout ==
    /\ Step("texcoord_layout", "loop_check")
    /\ gl' = glVertexAttribPointer(
                glEnableVertexAttribArray(gl, locals.texcoord_location),
                locals.texcoord_location, 2, 2 * SizeofFloat, 0)
    /\ UNCHANGED << glfw, locals, frame, failed, stderrLog, iterLog, pending,
                    event, exitStatus >>

(***************************************************************************)
(* The render loop, main.c:288-311.                                        *)
(***************************************************************************)
\* a step of the loop body: it is logged in the iteration's log
LoopStep(step, next) ==
    /\ pc = step
    /\ pc' = next
    /\ iterLog' = Append(iterLog, step)
    /\ UNCHANGED setupLog

\* the loop's condition without its negation
LoopCondition_negated(w) == w.shouldClose

\* 288: !glfwWindowShouldClose(window)
LoopCondition(w) == ~w.shouldClose

LoopCheck ==
    /\ pc = "loop_check"
    /\ pc' = IF LoopCondition(glfw) THEN "glfwGetTime" ELSE "glfwDestroyWindow"
    /\ iterLog' = << >>
    /\ UNCHANGED << glfw, gl, locals, frame, failed, stderrLog, setupLog,
                    pending, event, exitStatus >>

\* 292: double t = glfwGetTime(); the model keeps cos(t)
GetTime ==
    \E c \in CosValues :
        /\ LoopStep("glfwGetTime", "glfwGetFramebufferSize")
        /\ frame' = [frame EXCEPT !.cos_t = c]
        /\ UNCHANGED << glfw, gl, locals, failed, stderrLog, pending, event, exitStatus >>

\* 294: glfwGetFramebufferSize(window, &width, &height)
GetFramebufferSize ==
    \E size \in FbSizes :
        /\ LoopStep("glfwGetFramebufferSize", "glViewport")
        /\ frame' = [frame EXCEPT !.width = size[1], !.height = size[2]]
        /\ UNCHANGED << glfw, gl, locals, failed, stderrLog, pending, event, exitStatus >>

\* a viewport fixed to the window's size
glViewport_fixed(width, height) == WindowSize

\* 295: glViewport(0, 0, width, height)
glViewport(width, height) == << width, height >>

Viewport ==
    /\ LoopStep("glViewport", "glClear")
    /\ gl' = [gl EXCEPT !.viewport = glViewport(frame.width, frame.height)]
    /\ UNCHANGED << glfw, locals, frame, failed, stderrLog, pending, event, exitStatus >>

\* 296: glClear(GL_COLOR_BUFFER_BIT)
Clear ==
    /\ LoopStep("glClear", "transform")
    /\ UNCHANGED << glfw, gl, locals, frame, failed, stderrLog, pending,
                    event, exitStatus >>

\* a model matrix that is kept from frame to frame
ModelMatrixInit_kept(previous) == previous

\* 298: mat4 m = GLM_MAT4_IDENTITY_INIT, whatever m held before
ModelMatrixInit(previous) == GLM_MAT4_IDENTITY_INIT

\* 302: width / (float) height
AspectRatio(width, height) == FDiv(FInt(width), FInt(height))

\* the product with its factors swapped
ComposeMVP_swapped(p, m) == glm_mat4_mul(m, p)

\* 303: glm_mat4_mul(p, m, mvp)
ComposeMVP(p, m) == glm_mat4_mul(p, m)

\* 298-303: the transform of the frame
Transform ==
    /\ LoopStep("transform", "glUseProgram")
    /\ LET m == glm_translate(ModelMatrixInit(frame.m),
                              << FInt(0), frame.cos_t, FInt(0) >>)
           p == glm_ortho_default(AspectRatio(frame.width, frame.height))
       IN  frame' = [frame EXCEPT !.m = m, !.p = p, !.mvp = ComposeMVP(p, m)]
    /\ UNCHANGED << glfw, gl, locals, failed, stderrLog, pending, event, exitStatus >>

\* 305: glUseProgram(program): GL_INVALID_OPERATION, and no effect, for a
\* program that is not linked
UseProgram ==
    /\ LoopStep("glUseProgram", "glUniformMatrix4fv")
    /\ gl' = [gl EXCEPT !.currentProgram =
                           IF gl.linked THEN locals.program ELSE @]
    /\ UNCHANGED << glfw, locals, frame, failed, stderrLog, pending, event, exitStatus >>

\* 306: glUniformMatrix4fv(mvp_location, 1, GL_FALSE, mvp): no effect
\* without a current program or for location -1
UniformMatrix ==
    /\ LoopStep("glUniformMatrix4fv", "glDrawArrays")
    /\ gl' = [gl EXCEPT !.uniformMVP =
                           IF gl.currentProgram # 0 /\ locals.mvp_location # -1
                           THEN frame.mvp ELSE @]
    /\ UNCHANGED << glfw, locals, frame, failed, stderrLog, pending, event, exitStatus >>

\* 307: glDrawArrays(GL_TRIANGLES, 0, 3)
DrawArrays ==
    /\ LoopStep("glDrawArrays", "glfwSwapBuffers")
    /\ gl' = [gl EXCEPT !.drawn = DrawCount]
    /\ UNCHANGED << glfw, locals, frame, failed, stderrLog, pending, event, exitStatus >>

\* 309: glfwSwapBuffers(window)
SwapBuffers ==
    /\ LoopStep("glfwSwapBuffers", "glfwPollEvents")
    /\ UNCHANGED << glfw, gl, locals, frame, failed, stderrLog, pending,
                    event, exitStatus >>

\* a callback that does not look at the action
key_callback_anyAction(shouldClose, key, action) ==
    IF key = GLFW_KEY_ESCAPE THEN TRUE ELSE shouldClose

\* 44-48: key_callback(window, key, scancode, action, mods), as the new
\* value of the window's close flag
key_callback(shouldClose, key, action) ==
    IF key = GLFW_KEY_ESCAPE /\ action = GLFW_PRESS THEN TRUE ELSE shouldClose

\* 310: glfwPollEvents() finds some events waiting ...
PollEvents ==
    \E n \in 0..MaxEvents :
        /\ LoopStep("glfwPollEvents", "in glfwPollEvents")
        /\ pending' = n
        /\ event' = NoEvent
        /\ UNCHANGED << glfw, gl, locals, frame, failed, stderrLog, exitStatus >>

\* ... delivers them one by one: a key event to the window's key callback
\* (142), a close request of the OS to the window's close flag ...
DeliverEvent ==
    \E e \in Events :
        /\ pc = "in glfwPollEvents"
        /\ pending > 0
        /\ glfw' = [glfw EXCEPT !.shouldClose =
                       IF e.type = "close" THEN TRUE
                       ELSE IF glfw.keyCallback = "key_callback"
                            THEN key_callback(@, e.key, e.action)
                            ELSE @]
        /\ pending' = pending - 1
        /\ event' = e
        /\ UNCHANGED << pc, gl, locals, frame, failed, stderrLog, setupLog,
                        iterLog, exitStatus >>

\* ... and returns to the loop's condition
PollReturn ==
    /\ pc = "in glfwPollEvents"
    /\ pending = 0
    /\ pc' = "loop_check"
    /\ event' = NoEvent
    /\ UNCHANGED << glfw, gl, locals, frame, failed, stderrLog, setupLog,
                    iterLog, pending, exitStatus >>

(***************************************************************************)
(* Shutdown, main.c:313-315.                                               *)
(***************************************************************************)
\* 313: glfwDestroyWindow(window)
DestroyWindow ==
    /\ pc = "glfwDestroyWindow"
    /\ pc' = "glfwTerminate"
    /\ glfw' = [glfw EXCEPT !.destroyed = @ + 1, !.contextCurrent = FALSE]
    /\ UNCHANGED << gl, locals, frame, failed, stderrLog, setupLog, iterLog,
                    pending, event, exitStatus >>

\* 314: glfwTerminate()
Terminate ==
    /\ pc = "glfwTerminate"
    /\ pc' = "return"
    /\ glfw' = [glfw EXCEPT !.terminated = @ + 1, !.initialised = FALSE]
    /\ UNCHANGED << gl, locals, frame, failed, stderrLog, setupLog, iterLog,
                    pending, event, exitStatus >>

\* a return that passes a setup failure on to the caller
ReturnStatus_propagated(failures) == IF failures = {} THEN 0 ELSE 1

\* 315: return 0, whatever failed
ReturnStatus(failures) == EXIT_STATUS

Return ==
    /\ pc = "return"
    /\ pc' = "done"
    /\ exitStatus' = << ReturnStatus(failed) >>
    /\ UNCHANGED << glfw, gl, locals, frame, failed, stderrLog, setupLog,
                    iterLog, pending, event >>

Next ==
    \/ GlfwInit \/ GlfwCreateWindow \/ GlfwSetKeyCallback
    \/ GlfwMakeContextCurrent \/ GlewInit \/ GenVertexArrays
    \/ CompileVertexShader \/ CompileFragmentShader \/ LinkProgram
    \/ GetLocations \/ BindVertexArray \/ UploadVertices \/ VertexLayout
    \/ GetTexture \/ BindTexture \/ BindVBO \/ UploadTexCoords
    \/ TexCoordLayout
    \/ LoopCheck \/ GetTime \/ GetFramebufferSize \/ Viewport \/ Clear
    \/ Transform \/ UseProgram \/ UniformMatrix \/ DrawArrays \/ SwapBuffers
    \/ PollEvents \/ DeliverEvent \/ PollReturn
    \/ DestroyWindow \/ Terminate \/ Return

Spec == Init /\ [][Next]_vars

(***************************************************************************)
(* Positions of main.                                                      *)
(***************************************************************************)
SetupOrder ==
    << "glfwInit", "glfwCreateWindow", "glfwSetKeyCallback",
       "glfwMakeContextCurrent", "glewInit", "glGenVertexArrays",
       "vertex_shader", "fragment_shader", "program", "locations",
       "glBindVertexArray", "vertex_buffer", "vertex_layout", "get_texture",
       "glBindTexture", "glBindBuffer", "texCoords", "texcoord_layout" >>

IterationOrder ==
    << "glfwGetTime", "glfwGetFramebufferSize", "glViewport", "glClear",
       "transform", "glUseProgram", "glUniformMatrix4fv", "glDrawArrays",
       "glfwSwapBuffers", "glfwPollEvents" >>

Range(q) == { q[i] : i \in 1..Len(q) }

SetupPCs == Range(SetupOrder)

BodyPCs == Range(IterationOrder) \cup {"in glfwPollEvents"}

LoopPCs == BodyPCs \cup {"loop_check"}

ShutdownPCs == {"glfwDestroyWindow", "glfwTerminate", "return", "done"}

IsPrefix(q, r) == Len(q) <= Len(r) /\ q = SubSeq(r, 1, Len(q))

(***************************************************************************)
(* C1.  The loop runs while the close flag is unset and tests the flag     *)
(* only at the top of an iteration: with the flag unset the check enters   *)
(* the body, with the flag set no step of the body runs any more and the   *)
(* check leaves for glfwDestroyWindow, which is followed by glfwTerminate  *)
(* and the return; the window is destroyed and the library terminated at   *)
(* most once each, in this order, once each by the time main returns, and  *)
(* never while the loop is still running.                                  *)
(***************************************************************************)
C1_LoopExit ==
    /\ [] /\ glfw.shouldClose => pc \in {"in glfwPollEvents", "loop_check"}
                                        \cup ShutdownPCs
          /\ glfw.destroyed <= 1 /\ glfw.terminated <= 1
          /\ glfw.terminated <= glfw.destroyed
          /\ glfw.destroyed = 1 <=> pc \in {"glfwTerminate", "return", "done"}
          /\ glfw.terminated = 1 <=> pc \in {"return", "done"}
          /\ pc \in ShutdownPCs => glfw.shouldClose
    /\ [][ /\ pc = "loop_check" /\ ~glfw.shouldClose => pc' = "glfwGetTime"
           /\ pc = "loop_check" /\ glfw.shouldClose => pc' = "glfwDestroyWindow"
           /\ pc \in BodyPCs /\ pc' # pc =>
                 \/ pc = "in glfwPollEvents" /\ pc' = "loop_check"
                 \/ \E i \in 1..Len(IterationOrder) :
                       /\ pc = IterationOrder[i]
                       /\ pc' = IF i < Len(IterationOrder)
                                THEN IterationOrder[i + 1]
                                ELSE "in glfwPollEvents"
           /\ pc = "glfwDestroyWindow" => pc' = "glfwTerminate"
           /\ pc = "glfwTerminate" => pc' = "return"
           /\ pc = "return" => pc' = "done" ]_vars

\* main has returned after a frame was drawn and a close request ended the loop
C1_Witness ==
    /\ pc = "done"
    /\ gl.drawn = DrawCount
    /\ glfw.shouldClose
    /\ glfw.destroyed = 1 /\ glfw.terminated = 1

(***************************************************************************)
(* C2.  A key event sets the close flag exactly if it is a press of        *)
(* Escape; any other key event leaves the flag as it was, a key event      *)
(* changes nothing else of the program's state, and no step of the         *)
(* program clears a flag that is set.                                      *)
(***************************************************************************)
C2_KeyCallback ==
    [][ /\ glfw.shouldClose => glfw'.shouldClose
        /\ (pc = "in glfwPollEvents" /\ pending' < pending /\ event'.type = "key") =>
              /\ glfw'.shouldClose =
                    IF event'.key = GLFW_KEY_ESCAPE /\ event'.action = GLFW_PRESS
                    THEN TRUE ELSE glfw.shouldClose
              /\ glfw' = [glfw EXCEPT !.shouldClose = glfw'.shouldClose]
              /\ UNCHANGED << pc, gl, locals, frame, failed, stderrLog, setupLog,
                              iterLog, exitStatus >> ]_vars

\* an Escape press has just been delivered and has set the flag
C2_Witness ==
    /\ pc = "in glfwPollEvents"
    /\ event = [type |-> "key", key |-> GLFW_KEY_ESCAPE, action |-> GLFW_PRESS]
    /\ glfw.shouldClose
    /\ pending > 0

\* an Escape release has been delivered and the flag is still unset
C2_WitnessIgnored ==
    /\ pc = "in glfwPollEvents"
    /\ event = [type |-> "key", key |-> GLFW_KEY_ESCAPE, action |-> GLFW_RELEASE]
    /\ ~glfw.shouldClose

FailureMessage ==
    [ glfwInit |-> "Failed to initialize glfw.",
      window |-> "Failed to create window.",
      glew |-> "Error: glew",
      vertex_shader |-> "vertex shader infoLog",
      fragment_shader |-> "fragment shader infoLog",
      link |-> "program infoLog",
      png_begin_read |-> "Could not read file",
      malloc |-> "Could not allocate memory for an image",
      png_finish_read |-> "libpng error" ]

FailuresReported ==
    /\ failed \subseteq DOMAIN FailureMessage
    /\ \A f \in failed : FailureMessage[f] \in stderrLog

\* setup has not been cut short: main is where the steps it has executed
\* lead, and every step has run at most once
SetupContinues ==
    /\ pc \in SetupPCs =>
          /\ Len(setupLog) < Len(SetupOrder)
          /\ pc = SetupOrder[Len(setupLog) + 1]
    /\ IsPrefix(setupLog, SetupOrder)

(***************************************************************************)
(* C3 as claimed: each failed step has written its message, and setup      *)
(* goes on to every later step and to the loop whatever has failed: the    *)
(* program never stops before the loop.                                    *)
(***************************************************************************)
C3_Original ==
    /\ FailuresReported
    /\ SetupContinues
    /\ pc # "crashed"

(***************************************************************************)
(* C3 as amended.  Each failed step has written its message and main has   *)
(* gone on to the next step: main has no abort path and no retry, a step   *)
(* of setup is followed by the next one in the order of the source, once.  *)
(* After a shader or an image failure every later step and the loop are    *)
(* reached.  After a failed glfwInit, glfwCreateWindow or glewInit the     *)
(* process can die in the library call that is handed the invalid handle   *)
(* (glfwSetKeyCallback on the NULL window, glewInit without a context,     *)
(* glGenVertexArrays through an entry point that was never loaded); these  *)
(* are the only places where it stops before the loop, and the loop is     *)
(* never reached after a failed glfwInit or glfwCreateWindow.              *)
(***************************************************************************)
C3_Amended ==
    /\ [] /\ FailuresReported
          /\ SetupContinues
          /\ pc \in SetupPCs => ENABLED Next
          /\ pc = "crashed" =>
                /\ failed \cap {"glfwInit", "window", "glew"} # {}
                /\ failed \subseteq {"glfwInit", "window", "glew"}
                /\ setupLog[Len(setupLog)] \in
                      {"glfwSetKeyCallback", "glewInit", "glGenVertexArrays"}
          /\ pc \in LoopPCs \cup ShutdownPCs =>
                /\ failed \cap {"glfwInit", "window"} = {}
                /\ setupLog = SetupOrder
    /\ [][ \A i \in 1..Len(SetupOrder) :
              (pc = SetupOrder[i] /\ pc' # pc) =>
                 \/ pc' = "crashed"
                 \/ pc' = IF i < Len(SetupOrder) THEN SetupOrder[i + 1]
                          ELSE "loop_check" ]_vars

\* the loop is running after the shaders, the link and the image had all
\* failed and glewInit had reported an error
C3_Witness ==
    /\ pc = "glDrawArrays"
    /\ failed = {"glew", "vertex_shader", "fragment_shader", "link",
                 "png_begin_read", "malloc", "png_finish_read"}
    /\ FailuresReported

\* the process has died in setup after a failed window creation
C3_WitnessCrash ==
    /\ pc = "crashed"
    /\ failed = {"window"}
    /\ "Failed to create window." \in stderrLog

(***************************************************************************)
(* C5.  The groups of setup steps the system overview numbers.             *)
(***************************************************************************)
OverviewGroup ==
    [ glfwInit |-> 1, glfwCreateWindow |-> 1,
      glewInit |-> 2,
      get_texture |-> 3,
      vertex_shader |-> 4, fragment_shader |-> 4, program |-> 4, locations |-> 4,
      vertex_buffer |-> 5, vertex_layout |-> 5, texCoords |-> 5,
      texcoord_layout |-> 5 ]

(***************************************************************************)
(* C5 as claimed: setup is one sequence that is over before the first      *)
(* iteration and runs in the overview's order: windowing, function         *)
(* loader, texture, shaders and locations, vertex and texture-coordinate   *)
(* uploads.                                                                *)
(***************************************************************************)
C5_Original ==
    /\ pc \in LoopPCs => Range(setupLog) = SetupPCs
    /\ \A i, j \in 1..Len(setupLog) :
          (/\ i < j
           /\ setupLog[i] \in DOMAIN OverviewGroup
           /\ setupLog[j] \in DOMAIN OverviewGroup)
          => OverviewGroup[setupLog[i]] <= OverviewGroup[setupLog[j]]

(***************************************************************************)
(* C5 as amended: setup is one sequence, each step finishing before the    *)
(* next begins and all of them before the first iteration, in the order    *)
(* (1) windowing init and window creation, (2) function-loader init,       *)
(* (3) shader compile, program link and location queries, (4) upload of    *)
(* the vertex array with the layout of vPos and vCol, (5) PNG load and     *)
(* texture upload with mipmap generation, (6) upload of the texture-       *)
(* coordinate array with its layout.                                       *)
(***************************************************************************)
C5_Amended ==
    /\ IsPrefix(setupLog, SetupOrder)
    /\ pc \in LoopPCs => setupLog = SetupOrder
    /\ pc \in SetupPCs => iterLog = << >> /\ gl.drawn = 0
    /\ LET At(step) == CHOOSE i \in 1..Len(SetupOrder) : SetupOrder[i] = step
       IN  /\ At("glfwInit") < At("glfwCreateWindow")
           /\ At("glfwCreateWindow") < At("glewInit")
           /\ At("glewInit") < At("vertex_shader")
           /\ At("vertex_shader") < At("fragment_shader")
           /\ At("fragment_shader") < At("program")
           /\ At("program") < At("locations")
           /\ At("locations") < At("vertex_buffer")
           /\ At("vertex_buffer") < At("vertex_layout")
           /\ At("vertex_layout") < At("get_texture")
           /\ At("get_texture") < At("texCoords")
           /\ At("texCoords") < At("texcoord_layout")

\* setup is over: the texture was loaded after the vertices were uploaded
\* and before the texture coordinates were
C5_Witness ==
    /\ pc = "loop_check"
    /\ iterLog = << >>
    /\ setupLog = SetupOrder
    /\ gl.texImage = "decoded"
    /\ gl.buffers[locals.VBO] = texCoords

(***************************************************************************)
(* C6.  An iteration performs its steps in the order of the source, each   *)
(* once: framebuffer size, viewport, clear, transform, uniform upload,     *)
(* draw of 3 vertices, swap, events.  At the draw the viewport is the      *)
(* framebuffer size read in this iteration, and events are delivered only  *)
(* after the swap of the same iteration.                                   *)
(***************************************************************************)
C6_IterationOrder ==
    /\ IsPrefix(iterLog, IterationOrder)
    /\ pc \in Range(IterationOrder) => pc = IterationOrder[Len(iterLog) + 1]
    /\ pc = "in glfwPollEvents" => iterLog = IterationOrder
    /\ pc \in {"glClear", "transform", "glUseProgram", "glUniformMatrix4fv",
               "glDrawArrays", "glfwSwapBuffers"}
          => gl.viewport = << frame.width, frame.height >>
    /\ pc \in {"glfwSwapBuffers", "glfwPollEvents", "in glfwPollEvents"}
          => gl.drawn = 3
    /\ (pending > 0 \/ event # NoEvent) => pc = "in glfwPollEvents"

\* a draw is about to be issued into a viewport that is not the window's
\* size, in an iteration that follows an earlier one
C6_Witness ==
    /\ pc = "glDrawArrays"
    /\ gl.drawn = 3
    /\ << frame.width, frame.height >> = << 480, 640 >>
    /\ gl.viewport = << 480, 640 >>
    /\ iterLog = SubSeq(IterationOrder, 1, 7)

(***************************************************************************)
(* C7.  translation(c): the identity with offset (0, c, 0).                *)
(***************************************************************************)
TranslationY(c) ==
    << << FInt(1), FInt(0), FInt(0), FInt(0) >>,
       << FInt(0), FInt(1), FInt(0), FInt(0) >>,
       << FInt(0), FInt(0), FInt(1), FInt(0) >>,
       << FInt(0), c,       FInt(0), FInt(1) >> >>

\* the matrix product A * B, entry by entry (column-major)
MatProduct(A, B) ==
    [c \in Idx |-> [r \in Idx |->
        LET t(k) == FMul(A[k][r], B[c][k])
        IN  FAdd(t(1), FAdd(t(2), FAdd(t(3), t(4))))]]

(***************************************************************************)
(* C7.  In every iteration with a defined aspect ratio a = width / height  *)
(* the matrix handed to glUniformMatrix4fv, and with a linked program the  *)
(* value of the uniform MVP at the draw, is projection(a) * translation(c) *)
(* with the projection on the left, c = cos(t), and the translation built  *)
(* from the identity in this iteration: its last column is                 *)
(* (0, c * projection(a)[1][1], 0, 1).                                     *)
(***************************************************************************)
C7_Transform ==
    LET a == F(frame.width, frame.height)
        expected == MatProduct(glm_ortho_default(a), TranslationY(frame.cos_t))
    IN  (frame.height # 0) =>
           /\ pc \in {"glUseProgram", "glUniformMatrix4fv", "glDrawArrays"} =>
                 /\ frame.m = TranslationY(frame.cos_t)
                 /\ frame.mvp = expected
                 /\ frame.mvp[4] = << FInt(0),
                                      FMul(frame.cos_t, glm_ortho_default(a)[2][2]),
                                      FInt(0), FInt(1) >>
           /\ (pc = "glDrawArrays" /\ gl.linked) => gl.uniformMVP = expected

\* a portrait framebuffer at cos(t) = -1/2: the uniform's vertical offset
\* is -1/2 scaled by the projection's 3/4
C7_Witness ==
    /\ pc = "glDrawArrays"
    /\ gl.linked
    /\ << frame.width, frame.height >> = << 480, 640 >>
    /\ frame.cos_t = F(-1, 2)
    /\ gl.uniformMVP[4][2] = F(-3, 8)
    /\ gl.uniformMVP[2][2] = F(3, 4)

(***************************************************************************)
(* C8.  The attribute the linked program has assigned to a name.           *)
(***************************************************************************)
AttribOf(name) ==
    LET location == glGetAttribLocation(gl, name)
    IN  IF location \in AttribLocations THEN gl.attribs[location] ELSE NoAttrib

(***************************************************************************)
(* C8 as claimed: after setup, so at every draw, vertex_buffer holds the   *)
(* 3 vertices and VBO the 3 texture coordinates, vPos reads 2 floats at    *)
(* offset 0 and vCol 3 floats at offset 2 floats from vertex_buffer with   *)
(* the stride of one vertex, and aTexCoord reads 2 floats with a stride    *)
(* of 2 floats from VBO.                                                   *)
(***************************************************************************)
C8_Claim ==
    pc \in LoopPCs =>
       /\ locals.vertex_buffer # locals.VBO
       /\ gl.buffers[locals.vertex_buffer] = vertices
       /\ gl.buffers[locals.VBO] = texCoords
       /\ AttribOf("vPos") =
             [enabled |-> TRUE, size |-> 2, stride |-> 5 * SizeofFloat,
              offset |-> 0, buffer |-> locals.vertex_buffer]
       /\ AttribOf("vCol") =
             [enabled |-> TRUE, size |-> 3, stride |-> 5 * SizeofFloat,
              offset |-> 2 * SizeofFloat, buffer |-> locals.vertex_buffer]
       /\ AttribOf("aTexCoord") =
             [enabled |-> TRUE, size |-> 2, stride |-> 2 * SizeofFloat,
              offset |-> 0, buffer |-> locals.VBO]

(***************************************************************************)
(* C9.  No step of the loop changes what setup established: main's         *)
(* handles and locations, the texture and its binding, the vertex array    *)
(* binding, the buffers and their binding, the attribute layout, the       *)
(* program's link state; selecting the program again changes nothing once  *)
(* it is current; and the transform of a frame is a function of this       *)
(* frame's framebuffer size and time alone.                                *)
(***************************************************************************)
C9_FrameEffect ==
    /\ [] (pc \in {"glUseProgram", "glUniformMatrix4fv", "glDrawArrays"} =>
              frame.mvp = glm_mat4_mul(
                             glm_ortho_default(FDiv(FInt(frame.width),
                                                    FInt(frame.height))),
                             glm_translate(GLM_MAT4_IDENTITY_INIT,
                                           << FInt(0), frame.cos_t, FInt(0) >>)))
    /\ [][ (pc \in LoopPCs) =>
              /\ locals' = locals
              /\ gl'.texture2D = gl.texture2D /\ gl'.texImage = gl.texImage
              /\ gl'.texParams = gl.texParams /\ gl'.mipmaps = gl.mipmaps
              /\ gl'.vertexArray = gl.vertexArray
              /\ gl'.arrayBuffer = gl.arrayBuffer
              /\ gl'.buffers = gl.buffers
              /\ gl'.attribs = gl.attribs
              /\ gl'.linked = gl.linked /\ gl'.active = gl.active
              /\ gl.currentProgram # 0 => gl'.currentProgram = gl.currentProgram
              /\ gl'.currentProgram \in {gl.currentProgram, locals.program} ]_vars

\* the second draw call: a draw has been issued, the program is current
\* and is selected again, and a new transform has been computed
C9_Witness ==
    /\ pc = "glDrawArrays"
    /\ gl.drawn = 3
    /\ gl.currentProgram = locals.program
    /\ locals.program # 0
    /\ gl.texture2D = locals.texture
    /\ gl.buffers[locals.vertex_buffer] = vertices

(***************************************************************************)
(* C10 as claimed: wherever the aspect ratio width / height is computed    *)
(* the height is not zero, so the ratio is a number.                       *)
(***************************************************************************)
C10_Claim ==
    pc \in {"transform", "glUseProgram", "glUniformMatrix4fv", "glDrawArrays"} =>
       /\ frame.height # 0
       /\ pc # "transform" => \A c, r \in Idx : IsFinite(frame.mvp[c][r])

====
